---------------------------- MODULE Spec2Model ----------------------------
(***************************************************************************)
(* Model of src/cars_streamlit.py: the used-car analysis script.           *)
(*                                                                         *)
(* The script is a Streamlit page: it runs top to bottom once when the     *)
(* session starts and once more after every interaction with one of its    *)
(* three select boxes.  The session starts with the csv file and an empty   *)
(* page; a state of the model is the state left by one complete run; an    *)
(* action is one complete run, the first or the one an interaction         *)
(* triggers.                                                               *)
(*                                                                         *)
(* Representation                                                          *)
(*   text cell      a tuple of one-character strings, <<"M"," ","S">>      *)
(*   missing text   NaN, a tuple no text is equal to                       *)
(*   widget value   None (<<>>) or Some(v) (<<v>>)                         *)
(*   coordinate     degrees * 10^4 as an integer, wrapped like a widget    *)
(*                  value so that a missing coordinate is <<>>             *)
(*   a mean         [sum, cnt]: the value sum/cnt, NaN when cnt = 0;       *)
(*                  means are compared by cross-multiplication             *)
(*   Location       an atomic string; Python's string order on the         *)
(*                  locations in use is SortedLocations                    *)
(* Price cells are taken to be present numbers, as the data model of the   *)
(* listing requires.  The display columns derived from the averages        *)
(* (Price_in_thousands, Price, Formatted_Price, Price_K) and the figures   *)
(* built from the frames are left out: nothing reads them back.            *)
(*                                                                         *)
(* nlargest sorts by way of pandas and numpy.  With n >= len(frame) it is  *)
(* sort_values(ascending=False).head(n), whose default kind 'quicksort' is *)
(* not a stable sort: which order rows of equal value come out in depends  *)
(* on the numpy build, so each such order is a possible result.  A run     *)
(* that ranks the frame of the run before it gets the same result again.   *)
(***************************************************************************)
EXTENDS Integers, Sequences, FiniteSets, TLC

VARIABLES
    file,                      \* rows of used_cars_data.csv as load_data returns them
    cars_df,                   \* the listings with Brand and Model added
    df_cars,                   \* the listings merged with the coordinates
    df_avg_price_by_city,      \* the per-city averages drawn on the map
    brand_box,                 \* the three select boxes: [options, index]
    model_box,
    year_box,
    selected_Brand,            \* what the select boxes returned
    selected_Model,
    selected_Year,
    cars_df_filtered,          \* the listings matching the selection
    average_price,             \* their mean price
    df_avg_price_by_city_new,  \* their mean price per location
    df_top_5,                  \* the ranked locations
    rendered                   \* the elements the run put on the page

vars == <<file, cars_df, df_cars, df_avg_price_by_city, brand_box, model_box,
          year_box, selected_Brand, selected_Model, selected_Year,
          cars_df_filtered, average_price, df_avg_price_by_city_new,
          df_top_5, rendered>>

---------------------------------------------------------------------------
(* Bounds of the inputs *)

MaxNameLen == 5     \* longest Name of the one-listing inputs
MaxRows == 3        \* most listings of the selection inputs
MaxPrice == 2       \* highest Price of the ranking inputs

(* Program constant *)

N == 5              \* df_avg_price_by_city_new.nlargest(5, ...)

---------------------------------------------------------------------------
(* Values *)

NaN == <<"nan">>
None == <<>>
Some(v) == <<v>>

RECURSIVE SumSeq(_)
SumSeq(s) == IF s = <<>> THEN 0 ELSE Head(s) + SumSeq(Tail(s))

\* Series.mean(): NaN (cnt = 0) on an empty series
Mean(prices) == [sum |-> SumSeq(prices), cnt |-> Len(prices)]

MeanLess(a, b) == a.sum * b.cnt < b.sum * a.cnt
MeanEq(a, b) == a.sum * b.cnt = b.sum * a.cnt

\* df[mask]: the rows the boolean mask keeps, in order
RECURSIVE RowsFrom(_, _, _)
RowsFrom(df, mask, i) ==
    IF i > Len(df) THEN <<>>
    ELSE (IF mask[i] THEN <<df[i]>> ELSE <<>>) \o RowsFrom(df, mask, i + 1)

Rows(df, mask) == RowsFrom(df, mask, 1)

\* Series.unique(): the distinct values in order of first appearance
\* (a missing value is one of them)
RECURSIVE UniqueFrom(_, _)
UniqueFrom(s, seen) ==
    IF s = <<>> THEN seen
    ELSE UniqueFrom(Tail(s),
                    IF \E k \in DOMAIN seen : seen[k] = Head(s)
                    THEN seen ELSE Append(seen, Head(s)))

Unique(s) == UniqueFrom(s, <<>>)

\* df['Price']
Prices(df) == [i \in DOMAIN df |-> df[i].Price]

---------------------------------------------------------------------------
(* Record normalizer: Brand and Model from Name *)

Whitespace == {" "}

\* str.split(): the maximal runs of non-whitespace characters
RECURSIVE SplitFrom(_, _, _, _)
SplitFrom(s, i, cur, acc) ==
    IF i > Len(s) THEN (IF cur = <<>> THEN acc ELSE Append(acc, cur))
    ELSE IF s[i] \in Whitespace
         THEN SplitFrom(s, i + 1, <<>>, IF cur = <<>> THEN acc ELSE Append(acc, cur))
         ELSE SplitFrom(s, i + 1, Append(cur, s[i]), acc)

Split(s) == SplitFrom(s, 1, <<>>, <<>>)

\* .str.get(k): the k-th token counted from 0, missing when there is none
Get(tokens, k) == IF k + 1 <= Len(tokens) THEN tokens[k + 1] ELSE NaN

\* + on text cells: missing when either side is missing
StrAdd(a, b) == IF a = NaN \/ b = NaN THEN NaN ELSE a \o b

Brand(name) == Get(Split(name), 0)

Model(name) == StrAdd(StrAdd(Get(Split(name), 1), <<" ">>), Get(Split(name), 2))

Normalize(raw) ==
    [i \in DOMAIN raw |->
        [Name |-> raw[i].Name, Year |-> raw[i].Year, Price |-> raw[i].Price,
         Location |-> raw[i].Location,
         Brand |-> Brand(raw[i].Name), Model |-> Model(raw[i].Name)]]

---------------------------------------------------------------------------
(* Reference join *)

data_cordinates ==
    [Location  |-> <<"Mumbai", "Pune", "Chennai", "Coimbatore", "Hyderabad", "Jaipur",
                     "Kochi", "Kolkata", "Delhi", "Bangalore", "Ahmedabad">>,
     Latitude  |-> <<190760, 185204, 130827, 110168, 173850, 269124,
                     99312, 225726, 286139, 129716, 230225>>,
     Longitude |-> <<728777, 738567, 802707, 769558, 784867, 757873,
                     762673, 883639, 772090, 775946, 725714>>]

\* Python's order of the location strings the inputs use
SortedLocations ==
    <<"Ahmedabad", "Bangalore", "Chennai", "Coimbatore", "Delhi", "Goa", "Hyderabad",
      "Jaipur", "Kochi", "Kolkata", "Mumbai", "Pune", "mumbai">>

LocRanks ==
    [l \in {SortedLocations[k] : k \in DOMAIN SortedLocations} |->
        CHOOSE k \in DOMAIN SortedLocations : SortedLocations[k] = l]

LocRank(l) == LocRanks[l]

WithCoordinates(row, lat, lon) ==
    [Name |-> row.Name, Year |-> row.Year, Price |-> row.Price,
     Location |-> row.Location, Brand |-> row.Brand, Model |-> row.Model,
     Latitude |-> lat, Longitude |-> lon]

\* the rows of the coordinate table whose Location equals that of the listing
Matches(row) ==
    Rows([k \in DOMAIN data_cordinates.Location |-> k],
         [k \in DOMAIN data_cordinates.Location |->
            data_cordinates.Location[k] = row.Location])

\* an inner join in place of the left join: a listing without a match is lost
InnerJoinRow(row) ==
    LET found == Matches(row)
    IN  [j \in DOMAIN found |->
            WithCoordinates(row, Some(data_cordinates.Latitude[found[j]]),
                                 Some(data_cordinates.Longitude[found[j]]))]

\* one listing of a left join: a row per matching table row, or one row
\* without coordinates
LeftJoinRow(row) ==
    LET found == Matches(row)
    IN  IF found = <<>> THEN <<WithCoordinates(row, None, None)>>
        ELSE [j \in DOMAIN found |->
                WithCoordinates(row, Some(data_cordinates.Latitude[found[j]]),
                                     Some(data_cordinates.Longitude[found[j]]))]

\* pd.merge(cars_df, df_cordinates, on='Location', how='left')
RECURSIVE Merge(_)
Merge(df) == IF df = <<>> THEN <<>> ELSE LeftJoinRow(Head(df)) \o Merge(Tail(df))

---------------------------------------------------------------------------
(* Aggregator *)

\* the order of group keys: a Location, then numbers if the key has them
KeyLess(a, b) ==
    \/ LocRank(a[1]) < LocRank(b[1])
    \/ /\ a[1] = b[1]
       /\ Len(a) = 3
       /\ \/ a[2] < b[2]
          \/ a[2] = b[2] /\ a[3] < b[3]

RECURSIVE SortKeys(_)
SortKeys(S) ==
    IF S = {} THEN <<>>
    ELSE LET m == CHOOSE x \in S : \A y \in S \ {x} : KeyLess(x, y)
         IN  <<m>> \o SortKeys(S \ {m})

\* groupby(['Location','Latitude','Longitude']).agg({'Price': 'mean'}).reset_index():
\* rows with a missing key fall out, the groups come in key order
AverageByLocation(df) ==
    LET keyed == Rows(df, [i \in DOMAIN df |->
                                df[i].Latitude # None /\ df[i].Longitude # None])
        keys == {<<keyed[i].Location, keyed[i].Latitude[1], keyed[i].Longitude[1]>> :
                    i \in DOMAIN keyed}
        order == SortKeys(keys)
    IN  [g \in DOMAIN order |->
            LET members == Rows(keyed, [i \in DOMAIN keyed |->
                                          /\ keyed[i].Location = order[g][1]
                                          /\ keyed[i].Latitude[1] = order[g][2]
                                          /\ keyed[i].Longitude[1] = order[g][3]])
            IN  [Location |-> order[g][1], Latitude |-> order[g][2],
                 Longitude |-> order[g][3],
                 Average_Price |-> Mean(Prices(members))]]

\* groupby(['Location']).agg({'Price': 'mean'}).reset_index()
GroupMean(df) ==
    LET order == SortKeys({<<df[i].Location>> : i \in DOMAIN df})
    IN  [g \in DOMAIN order |->
            [Location |-> order[g][1],
             Average_Price |->
                Mean(Prices(Rows(df, [i \in DOMAIN df |->
                                        df[i].Location = order[g][1]])))]]

---------------------------------------------------------------------------
(* Top-N ranker: DataFrame.nlargest(n, 'Average_Price'), keep='first' *)

AtLeast(frame, x, y) == ~MeanLess(frame[x].Average_Price, frame[y].Average_Price)

\* Series.sort_values(ascending=False) with its default kind 'quicksort', which
\* is not a stable sort: every descending order of the rows is a possible
\* result, rows of equal value in any order
RECURSIVE DescendingOrders(_, _)
DescendingOrders(frame, S) ==
    IF S = {} THEN {<<>>}
    ELSE UNION {{<<m>> \o o : o \in DescendingOrders(frame, S \ {m})} :
                   m \in {x \in S : \A y \in S : AtLeast(frame, x, y)}}

\* rows of equal value latest first in place of earliest first
RECURSIVE LatestFirstDescending(_, _)
LatestFirstDescending(frame, S) ==
    IF S = {} THEN <<>>
    ELSE LET m == CHOOSE x \in S : \A y \in S \ {x} :
                     \/ MeanLess(frame[y].Average_Price, frame[x].Average_Price)
                     \/ /\ MeanEq(frame[x].Average_Price, frame[y].Average_Price)
                        /\ x > y
         IN  <<m>> \o LatestFirstDescending(frame, S \ {m})

\* argsort(kind='mergesort') of the negated values: descending, rows of equal
\* value in the order of the input
RECURSIVE StableDescending(_, _)
StableDescending(frame, S) ==
    IF S = {} THEN <<>>
    ELSE LET m == CHOOSE x \in S : \A y \in S \ {x} :
                     \/ MeanLess(frame[y].Average_Price, frame[x].Average_Price)
                     \/ /\ MeanEq(frame[x].Average_Price, frame[y].Average_Price)
                        /\ x < y
         IN  <<m>> \o StableDescending(frame, S \ {m})

\* kth_smallest of the negated values: the n-th largest value of the frame
KthLargest(frame, n) ==
    LET k == CHOOSE x \in DOMAIN frame :
                /\ Cardinality({y \in DOMAIN frame : ~AtLeast(frame, x, y)}) < n
                /\ Cardinality({y \in DOMAIN frame : AtLeast(frame, y, x)}) >= n
    IN  frame[k].Average_Price

Take(frame, order) == [k \in DOMAIN order |-> frame[order[k]]]

\* the sorted frame without the cut to n rows
NLargestUncut(n, frame) ==
    {Take(frame, o) : o \in DescendingOrders(frame, DOMAIN frame)}

\* the results nlargest can give: with n >= len(frame) the whole frame is
\* sorted (sort_values(...).head(n)); otherwise the rows no smaller than the
\* n-th largest value are sorted stably and the first n of them kept
NLargestOf(n, frame) ==
    IF n <= 0 THEN {<<>>}
    ELSE IF n >= Len(frame)
    THEN {Take(frame, o) : o \in DescendingOrders(frame, DOMAIN frame)}
    ELSE LET ns == {x \in DOMAIN frame :
                       ~MeanLess(frame[x].Average_Price, KthLargest(frame, n))}
         IN  {Take(frame, SubSeq(StableDescending(frame, ns), 1, n))}

\* nlargest is a function of the frame: on the frame of the previous run it
\* gives the result of the previous run
NLargest(n, frame, before) ==
    IF frame = before.frame THEN {before.top} ELSE NLargestOf(n, frame)

---------------------------------------------------------------------------
(* Filter resolver: the three select boxes and the filtered frame *)

\* a select box not drawn before
Fresh == [options |-> <<>>, index |-> 0]

\* st.selectbox(label, options): a box with the same options as in the previous
\* run is the same widget and keeps its index; any other box starts at index 0
Selectbox(options, prev) ==
    [options |-> options,
     index |-> IF prev.options = options /\ prev.index < Len(options)
               THEN prev.index ELSE 0]

\* what st.selectbox returns: the option at the index, None without options
Value(box) == IF box.options = <<>> THEN None ELSE Some(box.options[box.index + 1])

\* Series == value on a text column: a missing cell equals nothing, and
\* nothing equals a missing or absent value
EqText(cell, sel) == sel # None /\ sel[1] # NaN /\ cell = sel[1]

\* Series == value on the Year column
EqYear(cell, sel) == sel # None /\ cell = sel[1]

\* cars_df.Brand.unique()
BrandOptions(cars) == Unique([i \in DOMAIN cars |-> cars[i].Brand])

\* the models of every brand in place of those of the selected brand
ModelOptionsOfAnyBrand(cars, b) == Unique([i \in DOMAIN cars |-> cars[i].Model])

\* cars_df[cars_df.Brand == selected_Brand].Model.unique()
ModelOptions(cars, b) ==
    LET sub == Rows(cars, [i \in DOMAIN cars |-> EqText(cars[i].Brand, b)])
    IN  Unique([i \in DOMAIN sub |-> sub[i].Model])

\* cars_df[(cars_df.Brand == selected_Brand) & (cars_df.Model == selected_Model)].Year.unique()
YearOptions(cars, b, m) ==
    LET sub == Rows(cars, [i \in DOMAIN cars |->
                              EqText(cars[i].Brand, b) /\ EqText(cars[i].Model, m)])
    IN  Unique([i \in DOMAIN sub |-> sub[i].Year])

\* the filter without its condition on the year
FilterOfAnyYear(cars, b, m, y) ==
    Rows(cars, [i \in DOMAIN cars |-> /\ EqText(cars[i].Brand, b)
                                      /\ EqText(cars[i].Model, m)])

\* cars_df[(Brand == selected_Brand) & (Model == selected_Model) & (Year == selected_Year)]
Filter(cars, b, m, y) ==
    Rows(cars, [i \in DOMAIN cars |-> /\ EqText(cars[i].Brand, b)
                                      /\ EqText(cars[i].Model, m)
                                      /\ EqYear(cars[i].Year, y)])

\* st.plotly_chart, st.markdown with the average, st.altair_chart: all three
\* are drawn in every run
Rendered == <<"plotly_chart", "markdown", "altair_chart">>

---------------------------------------------------------------------------
(* One run of the script *)

\* a cache that, once filled, hands back the rows the previous run filtered
load_data_filtered ==
    IF rendered = <<>> THEN file
    ELSE
    [i \in DOMAIN cars_df_filtered |->
        [Name |-> cars_df_filtered[i].Name, Year |-> cars_df_filtered[i].Year,
         Price |-> cars_df_filtered[i].Price,
         Location |-> cars_df_filtered[i].Location]]

\* load_data: the cached content of the csv file
load_data == file

\* the states one run can leave, from the loaded rows, the select boxes as
\* the previous run and the user left them, and the previous ranking
Script(raw, bprev, mprev, yprev, before) ==
    LET cars == Normalize(raw)
        merged == Merge(cars)
        by_city == AverageByLocation(merged)
        bbox == Selectbox(BrandOptions(cars), bprev)
        b == Value(bbox)
        mbox == Selectbox(ModelOptions(cars, b), mprev)
        m == Value(mbox)
        ybox == Selectbox(YearOptions(cars, b, m), yprev)
        y == Value(ybox)
        filtered == Filter(cars, b, m, y)
        average == Mean(Prices(filtered))
        by_city_new == GroupMean(filtered)
    IN  {[file |-> raw,
          cars_df |-> cars,
          df_cars |-> merged,
          df_avg_price_by_city |-> by_city,
          brand_box |-> bbox, model_box |-> mbox, year_box |-> ybox,
          selected_Brand |-> b,
          selected_Model |-> m,
          selected_Year |-> y,
          cars_df_filtered |-> filtered,
          average_price |-> average,
          df_avg_price_by_city_new |-> by_city_new,
          df_top_5 |-> top,
          rendered |-> Rendered] : top \in NLargest(N, by_city_new, before)}

\* the ranking the previous run left
Before == [frame |-> df_avg_price_by_city_new, top |-> df_top_5]

Leaves(o) ==
    /\ file' = o.file
    /\ cars_df' = o.cars_df
    /\ df_cars' = o.df_cars
    /\ df_avg_price_by_city' = o.df_avg_price_by_city
    /\ brand_box' = o.brand_box
    /\ model_box' = o.model_box
    /\ year_box' = o.year_box
    /\ selected_Brand' = o.selected_Brand
    /\ selected_Model' = o.selected_Model
    /\ selected_Year' = o.selected_Year
    /\ cars_df_filtered' = o.cars_df_filtered
    /\ average_price' = o.average_price
    /\ df_avg_price_by_city_new' = o.df_avg_price_by_city_new
    /\ df_top_5' = o.df_top_5
    /\ rendered' = o.rendered

---------------------------------------------------------------------------
(* Inputs: the csv files a session can open on *)

Alphabet == {"a", "b", " "}

Texts(n) == UNION {[1..k -> Alphabet] : k \in 0..n}

\* one listing, its Name any text up to MaxNameLen characters
OneListing ==
    {<<[Name |-> n, Year |-> 2015, Price |-> 1, Location |-> "Mumbai"]>> :
        n \in Texts(MaxNameLen)}

\* up to MaxRows listings of two brands, two models of one brand, a Name of
\* two tokens and a Name of four, two years, two prices and locations

SelectionRows ==
    {[Name |-> <<"M", " ", "S", " ", "D">>, Year |-> y, Price |-> pl[1],
      Location |-> pl[2]] : y \in {2015, 2016}, pl \in {<<1, "Mumbai">>, <<2, "Goa">>}}
    \cup {[Name |-> n, Year |-> y, Price |-> 1, Location |-> "Mumbai"] :
            n \in {<<"M", " ", "S", " ", "V">>, <<"H", " ", "S", " ", "D", " ", "L">>},
            y \in {2015, 2016}}
    \cup {[Name |-> <<"M", " ", "S">>, Year |-> 2015, Price |-> 2, Location |-> "Goa"]}

Selections == UNION {[1..k -> SelectionRows] : k \in 0..MaxRows}

\* listings of one brand, model and year in the first k of six locations, two
\* of the six not in the coordinate table: each location has one listing of a
\* price up to MaxPrice, or two listings whose mean price is MaxPrice (the
\* second one late in the file)
RankingLocations == <<"Pune", "Mumbai", "Goa", "Delhi", "mumbai", "Kochi">>

RankingRow(l, p) ==
    [Name |-> <<"M", " ", "S", " ", "D">>, Year |-> 2015, Price |-> p, Location |-> l]

RECURSIVE RankingFile(_, _, _)
RankingFile(c, k, second) ==
    IF k > Len(c)
    THEN (IF second THEN <<>> ELSE RankingFile(c, 1, TRUE))
    ELSE (IF second
          THEN (IF c[k] = MaxPrice + 1
                THEN <<RankingRow(RankingLocations[k], 2 * MaxPrice - 1)>> ELSE <<>>)
          ELSE <<RankingRow(RankingLocations[k], IF c[k] <= MaxPrice THEN c[k] ELSE 1)>>)
         \o RankingFile(c, k + 1, second)

Rankings ==
    {RankingFile(c, 1, FALSE) :
        c \in UNION {[1..k -> 1..(MaxPrice + 1)] : k \in 0..Len(RankingLocations)}}

Inputs == OneListing \cup Selections \cup Rankings

---------------------------------------------------------------------------
(* The session *)

\* the session opens on one of the files; the script has not run yet
Init ==
    /\ file \in Inputs
    /\ cars_df = <<>>
    /\ df_cars = <<>>
    /\ df_avg_price_by_city = <<>>
    /\ brand_box = Fresh
    /\ model_box = Fresh
    /\ year_box = Fresh
    /\ selected_Brand = None
    /\ selected_Model = None
    /\ selected_Year = None
    /\ cars_df_filtered = <<>>
    /\ average_price = Mean(<<>>)
    /\ df_avg_price_by_city_new = <<>>
    /\ df_top_5 = <<>>
    /\ rendered = <<>>

\* the user picks another brand, and the script reruns
PickBrand ==
    \E k \in 0..(Len(brand_box.options) - 1) :
        /\ k # brand_box.index
        /\ \E o \in Script(load_data, [brand_box EXCEPT !.index = k],
                           model_box, year_box, Before) : Leaves(o)

\* the user picks another model, and the script reruns
PickModel ==
    \E k \in 0..(Len(model_box.options) - 1) :
        /\ k # model_box.index
        /\ \E o \in Script(load_data, brand_box, [model_box EXCEPT !.index = k],
                           year_box, Before) : Leaves(o)

\* the user picks another year, and the script reruns
PickYear ==
    \E k \in 0..(Len(year_box.options) - 1) :
        /\ k # year_box.index
        /\ \E o \in Script(load_data, brand_box, model_box,
                           [year_box EXCEPT !.index = k], Before) : Leaves(o)

\* the script runs, the first time or again with the selection as it is
Run ==
    \E o \in Script(load_data, brand_box, model_box, year_box, Before) : Leaves(o)

Next == Run \/ PickBrand \/ PickModel \/ PickYear

Spec == Init /\ [][Next]_vars

---------------------------------------------------------------------------
(* Properties.  They speak of the listings by value: a listing has the     *)
(* selected brand, model or year when its cell is the selected value, a    *)
(* missing cell being a value like any other.                              *)

Range(s) == {s[k] : k \in DOMAIN s}

Min(a, b) == IF a <= b THEN a ELSE b

\* the whitespace-delimited tokens of a text, by their places in it
TokenStarts(s) ==
    {i \in DOMAIN s : s[i] \notin Whitespace /\ (i = 1 \/ s[i - 1] \in Whitespace)}

TokenAt(s, i) ==
    LET j == CHOOSE e \in i..Len(s) :
                /\ \A k \in i..e : s[k] \notin Whitespace
                /\ (e = Len(s) \/ s[e + 1] \in Whitespace)
    IN  [k \in 1..(j - i + 1) |-> s[i + k - 1]]

\* the k-th token, the empty text when there are fewer than k
TokenOrEmpty(s, k) ==
    IF Cardinality(TokenStarts(s)) < k THEN <<>>
    ELSE TokenAt(s, CHOOSE i \in TokenStarts(s) :
                        Cardinality({j \in TokenStarts(s) : j < i}) = k - 1)

\* the script has run
Ran == rendered # <<>>

NoBlankName == \A i \in DOMAIN file : TokenStarts(file[i].Name) # {}

\* the listings with the selected brand; brand and model; brand, model and year
OfBrand == {i \in DOMAIN cars_df : Some(cars_df[i].Brand) = selected_Brand}

OfModel == {i \in OfBrand : Some(cars_df[i].Model) = selected_Model}

Matching == {i \in OfModel : Some(cars_df[i].Year) = selected_Year}

RECURSIVE PriceSum(_, _)
PriceSum(df, S) ==
    IF S = {} THEN 0
    ELSE LET i == CHOOSE x \in S : TRUE IN df[i].Price + PriceSum(df, S \ {i})

\* the mean price of the filtered listings at a location
MeanAt(l) ==
    LET at == {i \in DOMAIN cars_df_filtered : cars_df_filtered[i].Location = l}
    IN  [sum |-> PriceSum(cars_df_filtered, at), cnt |-> Cardinality(at)]

FilteredLocations == {cars_df_filtered[i].Location : i \in DOMAIN cars_df_filtered}

TableLocations == Range(data_cordinates.Location)

\* C1: after any sequence of selections the selected model is the model of a
\* listing of the selected brand, and the selected year is the year of a
\* listing with the selected brand and model.
C1_SelectionWithinDomains ==
    /\ selected_Model # None => OfModel # {}
    /\ selected_Year # None => Matching # {}

\* C1 witness: the second brand was picked and, under it, the second year.
C1_Reselected ==
    /\ brand_box.index = 1
    /\ year_box.index = 1
    /\ selected_Model # None
    /\ selected_Year # None

\* C2: the filtered subset holds exactly the listings whose brand, model and
\* year are the selected ones, each once and in the order of the file, and the
\* filtered average is the unweighted mean of their prices.
C2_FilteredExactly ==
    /\ Len(cars_df_filtered) = Cardinality(Matching)
    /\ \A k \in DOMAIN cars_df_filtered :
          \E i \in Matching :
             /\ cars_df_filtered[k] = cars_df[i]
             /\ Cardinality({j \in Matching : j < i}) = k - 1
    /\ average_price.cnt = 0 <=> Matching = {}
    /\ average_price.sum * Cardinality(Matching) =
          PriceSum(cars_df, Matching) * average_price.cnt

\* C2 witness: two matching listings of different price, and a listing of the
\* same brand and model that another year keeps out.
C2_SeveralMatch ==
    /\ \E i, j \in Matching : cars_df[i].Price # cars_df[j].Price
    /\ OfModel \ Matching # {}

\* C3: when, on a file with listings, none of a blank name, no listing
\* matches the selection, the average is undefined, and no
\* later stage goes on: the average and the ranking are not displayed and no
\* year stands in for the empty domain.
C3_EmptySelectionRefused ==
    (/\ Ran
     /\ file # <<>>
     /\ NoBlankName
     /\ (year_box.options = <<>> \/ cars_df_filtered = <<>>)) =>
        /\ average_price.cnt = 0
        /\ selected_Year = None
        /\ "markdown" \notin Range(rendered)
        /\ "altair_chart" \notin Range(rendered)

\* C4: the ranking is in descending order of average price, each entry is a
\* location of the filtered subset with the mean price of its listings there,
\* no location comes twice, no location left out has a higher average, and
\* there are min(5, number of distinct locations) entries.
C4_TopCities ==
    /\ Len(df_top_5) = Min(5, Cardinality(FilteredLocations))
    /\ \A k \in 1..(Len(df_top_5) - 1) :
          ~MeanLess(df_top_5[k].Average_Price, df_top_5[k + 1].Average_Price)
    /\ \A k \in DOMAIN df_top_5 :
          /\ df_top_5[k].Location \in FilteredLocations
          /\ df_top_5[k].Average_Price.cnt > 0
          /\ MeanEq(df_top_5[k].Average_Price, MeanAt(df_top_5[k].Location))
    /\ \A j, k \in DOMAIN df_top_5 : j # k => df_top_5[j].Location # df_top_5[k].Location
    /\ \A l \in FilteredLocations \ {df_top_5[k].Location : k \in DOMAIN df_top_5} :
          \A k \in DOMAIN df_top_5 : ~MeanLess(df_top_5[k].Average_Price, MeanAt(l))

\* C4 witness: more than five locations, one of them with two listings of
\* different price among the five ranked.
C4_MoreThanFive ==
    /\ Cardinality(FilteredLocations) > 5
    /\ \E k \in DOMAIN df_top_5 : df_top_5[k].Average_Price.cnt = 2

\* C5: of every listing with a token in its name, Brand is the first token and
\* Model is the second and the third token joined by one space, a token the
\* name does not have counting as the empty text; Model is never missing.
C5_NormalizedWithEmptyTokens ==
    \A i \in DOMAIN cars_df :
        TokenStarts(cars_df[i].Name) # {} =>
            /\ cars_df[i].Brand = TokenOrEmpty(cars_df[i].Name, 1)
            /\ cars_df[i].Model # NaN
            /\ cars_df[i].Model = TokenOrEmpty(cars_df[i].Name, 2) \o <<" ">>
                                    \o TokenOrEmpty(cars_df[i].Name, 3)

\* C6: the join keeps every listing once and in place; a listing whose
\* location is in the table carries the coordinates of that entry, any other
\* listing carries none; and the map data has an entry for no location
\* outside the table.
C6_LeftJoin ==
    /\ Len(df_cars) = Len(cars_df)
    /\ \A i \in DOMAIN cars_df :
          LET K == {k \in DOMAIN data_cordinates.Location :
                       data_cordinates.Location[k] = cars_df[i].Location}
          IN  /\ i \in DOMAIN df_cars
              /\ df_cars[i].Name = cars_df[i].Name
              /\ df_cars[i].Year = cars_df[i].Year
              /\ df_cars[i].Price = cars_df[i].Price
              /\ df_cars[i].Location = cars_df[i].Location
              /\ df_cars[i].Brand = cars_df[i].Brand
              /\ df_cars[i].Model = cars_df[i].Model
              /\ IF K = {}
                 THEN df_cars[i].Latitude = None /\ df_cars[i].Longitude = None
                 ELSE \E k \in K :
                         /\ df_cars[i].Latitude = Some(data_cordinates.Latitude[k])
                         /\ df_cars[i].Longitude = Some(data_cordinates.Longitude[k])
    /\ \A g \in DOMAIN df_avg_price_by_city :
          /\ df_avg_price_by_city[g].Location \in TableLocations
          /\ \E i \in DOMAIN cars_df :
                cars_df[i].Location = df_avg_price_by_city[g].Location
    /\ \A i \in DOMAIN cars_df :
          cars_df[i].Location \in TableLocations =>
             \E g \in DOMAIN df_avg_price_by_city :
                df_avg_price_by_city[g].Location = cars_df[i].Location

\* C6 witness: listings in Mumbai (in the table), in Goa and in mumbai (not in
\* the table), and a map entry.
C6_MappedAndUnmapped ==
    /\ {"Mumbai", "Goa", "mumbai"} \subseteq {cars_df[i].Location : i \in DOMAIN cars_df}
    /\ df_avg_price_by_city # <<>>

\* C7: the models offered are exactly the models of the listings of the
\* selected brand, and the years offered are exactly the years of the listings
\* with the selected brand and model.
C7_DomainsExact ==
    (Ran /\ NoBlankName) =>
        /\ Range(model_box.options) = {cars_df[i].Model : i \in OfBrand}
        /\ Range(year_box.options) = {cars_df[i].Year : i \in OfModel}

TiesInInputOrder ==
    LET Place(l) == CHOOSE g \in DOMAIN df_avg_price_by_city_new :
                        df_avg_price_by_city_new[g].Location = l
        Ranked == {df_top_5[k].Location : k \in DOMAIN df_top_5}
    IN  /\ \A j, k \in DOMAIN df_top_5 :
              (j < k /\ MeanEq(df_top_5[j].Average_Price, df_top_5[k].Average_Price))
                  => Place(df_top_5[j].Location) < Place(df_top_5[k].Location)
        /\ \A k \in DOMAIN df_top_5 : \A g \in DOMAIN df_avg_price_by_city_new :
              (/\ df_avg_price_by_city_new[g].Location \notin Ranked
               /\ MeanEq(df_avg_price_by_city_new[g].Average_Price,
                         df_top_5[k].Average_Price))
                  => Place(df_top_5[k].Location) < g

\* C9 as stated: in every ranking, locations of identical average price are in
\* the order of the ranker's input, also across the cut after the fifth.
C9_TiesInInputOrder == TiesInInputOrder

\* C9 amended: when the filtered subset has more than five locations,
\* locations of identical average price are in the order of the ranker's
\* input, also across the cut after the fifth.
C9_TiesInInputOrderWhenCut ==
    Len(df_avg_price_by_city_new) > 5 => TiesInInputOrder

\* C9 witness: more than five locations, two of the ranked ones tied, and a
\* location left out tied with a ranked one.
C9_TieAcrossTheCut ==
    /\ Len(df_avg_price_by_city_new) > 5
    /\ \E j, k \in DOMAIN df_top_5 :
          j # k /\ MeanEq(df_top_5[j].Average_Price, df_top_5[k].Average_Price)
    /\ \E k \in DOMAIN df_top_5 : \E g \in DOMAIN df_avg_price_by_city_new :
          /\ \A j \in DOMAIN df_top_5 :
                df_top_5[j].Location # df_avg_price_by_city_new[g].Location
          /\ MeanEq(df_avg_price_by_city_new[g].Average_Price,
                    df_top_5[k].Average_Price)

\* C10: after a run on a file with listings, none of a blank name, the years offered are
\* not empty, a listing matches the selection and the filtered average is a
\* number.
C10_SelectionDefined ==
    (Ran /\ file # <<>> /\ NoBlankName) =>
        /\ year_box.options # <<>>
        /\ selected_Year # None
        /\ cars_df_filtered # <<>>
        /\ average_price.cnt > 0

=============================================================================
